---- MODULE Spec2Model ----
(***************************************************************************)
(* The research agent of backend/agent/graph.py: a LangGraph state graph   *)
(* llm -> should_continue -> (tools -> llm | END) driven by                *)
(* run_research_query, together with the four tool adapters of             *)
(* backend/tools.                                                          *)
(***************************************************************************)
EXTENDS Integers, Sequences, FiniteSets, TLC

VARIABLES
    pc,              \* position of run_research_query / the graph
    max_iterations,  \* settings.max_iterations, loaded once
    messages,        \* AgentState["messages"]
    iterations,      \* AgentState["iterations"]
    route,           \* last value returned by should_continue
    result,          \* what run_research_query gave back to its caller
    raised,          \* the exception raised inside the try block, if any
    llm_calls,       \* number of llm_node invocations so far
    tool_rounds,     \* number of tool_node invocations so far
    next_id,         \* source of fresh message / tool-call identifiers
    tool_exec,       \* progress of tool_node over the requests it was given
    adapter_call     \* last direct invocation of a tool adapter

vars == <<pc, max_iterations, messages, iterations, route, result, raised,
          llm_calls, tool_rounds, next_id, tool_exec, adapter_call>>

----------------------------------------------------------------------------
(* Bounds of the model *)

\* largest configured ceiling explored by Spec
MaxCeiling == 2

\* llm_node is not explored past max_iterations + CapSlack invocations
CapSlack == 2

\* how far past the largest ceiling the routing inputs of SpecRouting go
CounterSlack == 2

(* Program constants *)

\* Settings.max_iterations default
DefaultMaxIterations == 10

\* search_arxiv: max_results = min(max_results, 10)
ArxivMaxResults == 10

\* search_web: max_results = min(max_results, 10)
WebMaxResults == 10

\* find_learning_resources: ddgs.text(query, max_results=8)
CourseFetch == 8

\* find_learning_resources: quality_results[:5]
QualityTake == 5

\* find_learning_resources: other_results[:3]
OtherTake == 3

\* find_learning_resources: ranked_results[:6]
RankedShown == 6

\* summarize_paper: first 10 pages
MaxPages == 10

(* Input domains *)

\* the query handed to run_research_query
Queries == {"find papers about transformers"}

\* the query / topic arguments handed to the adapters
Topics == {"transformers", "LangGraph agent development"}

Contents == {"answer_a", "answer_b"}

Min(a, b) == IF a < b THEN a ELSE b

----------------------------------------------------------------------------
(* Messages *)

NoCalls == <<>>

HumanMessage(content, id) ==
    [role |-> "human", content |-> content, tool_calls |-> NoCalls,
     tool_call_id |-> 0, id |-> id]

\* a tool-invocation request carried by an assistant message
ToolCall(name, id) ==
    [name |-> name, id |-> id,
     args |-> [query |-> "transformers", max_results |-> 5]]

\* the assistant message produced by llm_with_tools.invoke: content c and
\* one request per name of names, identifiers id+1 .. id+Len(names)
AIMessage(c, names, id) ==
    [role |-> "ai", content |-> c,
     tool_calls |-> [i \in 1..Len(names) |-> ToolCall(names[i], id + i)],
     tool_call_id |-> 0, id |-> id]

ToolMessage(content, call, id) ==
    [role |-> "tool", content |-> content, tool_calls |-> NoCalls,
     tool_call_id |-> call.id, id |-> id]

\* the request lists the model may emit in one reasoning step
ToolCallOptions ==
    { <<>>, <<"search_arxiv">>, <<"search_web", "search_arxiv">> }

\* MergeOne dropping a message whose role and content are already present
MergeOneDedup(left, m) ==
    IF \E i \in 1..Len(left) :
          left[i].role = m.role /\ left[i].content = m.content
    THEN left
    ELSE Append(left, m)

\* add_messages, one message: a message whose id is already in the history
\* replaces that entry, any other message is appended
MergeOne(left, m) ==
    IF \E i \in 1..Len(left) : left[i].id = m.id
    THEN [i \in 1..Len(left) |-> IF left[i].id = m.id THEN m ELSE left[i]]
    ELSE Append(left, m)

RECURSIVE AddMessages(_, _)
\* the reducer of AgentState.messages
AddMessages(left, right) ==
    IF right = <<>> THEN left
    ELSE AddMessages(MergeOne(left, Head(right)), Tail(right))

LastMessage(msgs) == msgs[Len(msgs)]

\* HasToolCalls testing only that the attribute exists
HasToolCallsAttr(m) == m.role = "ai"

\* hasattr(last_message, "tool_calls") and last_message.tool_calls
HasToolCalls(m) == m.role = "ai" /\ Len(m.tool_calls) > 0

----------------------------------------------------------------------------
(* Routing decision *)

\* should_continue with the tool-call test ahead of the cutoff test
should_continue_tools_first(msgs, iters, ceiling) ==
    IF HasToolCalls(LastMessage(msgs)) THEN "tools"
    ELSE IF iters > ceiling THEN "end"
    ELSE "end"

\* should_continue without the cutoff test
should_continue_no_cutoff(msgs, iters, ceiling) ==
    IF HasToolCalls(LastMessage(msgs)) THEN "tools" ELSE "end"

\* should_continue cutting off at iterations >= max_iterations
should_continue_ge(msgs, iters, ceiling) ==
    IF iters >= ceiling THEN "end"
    ELSE IF HasToolCalls(LastMessage(msgs)) THEN "tools"
    ELSE "end"

\* should_continue cutting off one step late
should_continue_late(msgs, iters, ceiling) ==
    IF iters > ceiling + 1 THEN "end"
    ELSE IF HasToolCalls(LastMessage(msgs)) THEN "tools"
    ELSE "end"

should_continue(msgs, iters, ceiling) ==
    IF iters > ceiling THEN "end"
    ELSE IF HasToolCalls(LastMessage(msgs)) THEN "tools"
    ELSE "end"

\* the conditional edge map of create_research_agent
EdgeTarget(decision) == IF decision = "tools" THEN "tools" ELSE "end"

----------------------------------------------------------------------------
(* Tool adapters. ext is what the external services do during the call. *)

Text(t, n) == [kind |-> "text", text |-> t, entries |-> n]

Raised(e) == [kind |-> "raise", text |-> e, entries |-> 0]

\* except Exception as e of search_arxiv
ArxivHandler(exc) == Text("Error searching arXiv", 0)

\* ext.exc: the exception the arXiv client throws, or "none";
\* ext.available: the papers it can yield
SearchArxiv(query, max_results, ext) ==
    LET limit == Min(max_results, ArxivMaxResults)
        n == Min(ext.available, limit)
    IN  IF ext.exc # "none" THEN ArxivHandler(ext.exc)
        ELSE IF n <= 0 THEN Text("No papers found", 0)
        ELSE Text("Found research papers", n)

\* except Exception as e of search_web
WebHandler(exc) == Text("Error searching web", 0)

SearchWeb(query, max_results, ext) ==
    LET limit == Min(max_results, WebMaxResults)
        n == Min(ext.available, limit)
    IN  IF ext.exc # "none" THEN WebHandler(ext.exc)
        ELSE IF n <= 0 THEN Text("No web results found", 0)
        ELSE Text("Found web results", n)

ResourceTypes == {"courses", "tutorials", "books", "videos"}

\* search_queries.get(resource_type, search_queries["courses"])
ResourceQuery(resource_type) ==
    IF resource_type \in ResourceTypes THEN resource_type ELSE "courses"

\* except Exception as e of find_learning_resources
CourseHandler(exc) == Text("Error finding resources", 0)

\* ext.quality / ext.other: results from quality domains / from elsewhere,
\* at most CourseFetch together
FindLearningResources(topic, resource_type, ext) ==
    LET q == ResourceQuery(resource_type)
        ranked == Min(ext.quality, QualityTake) + Min(ext.other, OtherTake)
    IN  IF ext.exc # "none" THEN CourseHandler(ext.exc)
        ELSE IF ext.quality + ext.other = 0 THEN Text("No resources found", 0)
        ELSE Text("Learning Resources", Min(ranked, RankedShown))

\* the places of summarize_paper's try block where an exception can be
\* raised, with the class of the exception
SummarizeFaults ==
    { [stage |-> "none",             exc |-> "none"],
      [stage |-> "requests.get",     exc |-> "RequestException"],
      [stage |-> "raise_for_status", exc |-> "RequestException"],
      [stage |-> "PdfReader",        exc |-> "PdfReadError"],
      [stage |-> "extract_text",     exc |-> "Exception"],
      [stage |-> "focus_area.lower", exc |-> "Exception"],
      [stage |-> "llm.invoke",       exc |-> "Exception"] }

\* SummarizeHandler without the last clause, except Exception
SummarizeHandlerNarrow(exc) ==
    IF exc = "RequestException" THEN Text("Error downloading PDF", 0)
    ELSE IF exc = "PdfReadError" THEN Text("Error reading PDF", 0)
    ELSE Raised(exc)

\* the except clauses of summarize_paper, in order
SummarizeHandler(exc) ==
    IF exc = "RequestException" THEN Text("Error downloading PDF", 0)
    ELSE IF exc = "PdfReadError" THEN Text("Error reading PDF", 0)
    ELSE Text("Error summarizing paper", 0)

\* ext.fault: the fault met, ext.pages: pages of the document
SummarizePaper(pdf_url, focus_area, ext) ==
    LET num_pages == Min(ext.pages, MaxPages)
    IN  IF ext.fault.stage # "none" THEN SummarizeHandler(ext.fault.exc)
        ELSE Text("Paper Summary", num_pages)

----------------------------------------------------------------------------
(* run_research_query *)

NoResult == [kind |-> "none", response |-> "", iterations |-> 0,
             success |-> FALSE]

\* FinalResult answering with the first message of the history
FinalResultFirst(msgs, iters) ==
    [kind |-> "return", response |-> msgs[1].content,
     iterations |-> iters, success |-> TRUE]

\* lines 170-182: the record built from the final graph state
FinalResult(msgs, iters) ==
    [kind |-> "return", response |-> LastMessage(msgs).content,
     iterations |-> iters, success |-> TRUE]

\* the except clause raising the exception again
ErrorResultReraise(e) ==
    [kind |-> "raise", response |-> e, iterations |-> 0, success |-> FALSE]

\* lines 184-190: the record built by the except clause
ErrorResult(e) ==
    [kind |-> "return", response |-> "I encountered an error",
     iterations |-> 0, success |-> FALSE]

\* tool_node at rest: started requests, finished requests with their
\* results in order of completion, adapter runs completed since the seed
NoToolExec == [started |-> 0, done |-> <<>>, runs |-> 0]

NoAdapterCall == [name |-> "none", input |-> <<>>, ext |-> <<>>,
                  out |-> Text("", 0)]

Init ==
    /\ pc = "idle"
    /\ max_iterations \in 1..MaxCeiling
    /\ messages = <<>>
    /\ iterations = 0
    /\ route = "none"
    /\ result = NoResult
    /\ raised = "none"
    /\ llm_calls = 0
    /\ tool_rounds = 0
    /\ next_id = 1
    /\ tool_exec = NoToolExec
    /\ adapter_call = NoAdapterCall

\* run_research_query entered: the graph state is seeded
Start ==
    /\ pc = "idle"
    /\ \E q \in Queries :
          messages' = AddMessages(<<>>, <<HumanMessage(q, next_id)>>)
    /\ iterations' = 0
    /\ next_id' = next_id + 1
    /\ pc' = "llm"
    /\ UNCHANGED <<tool_exec, max_iterations, route, result, raised, llm_calls,
                   tool_rounds, adapter_call>>

\* llm_node returning the counter as it found it
LlmNodeNoIncrement(Cs, Opts) ==
    /\ pc = "llm"
    /\ llm_calls < max_iterations + CapSlack
    /\ \E c \in Cs, names \in Opts :
          /\ messages' = AddMessages(messages, <<AIMessage(c, names, next_id)>>)
          /\ next_id' = next_id + Len(names) + 1
    /\ iterations' = iterations
    /\ llm_calls' = llm_calls + 1
    /\ pc' = "route"
    /\ UNCHANGED <<tool_exec, max_iterations, route, result, raised, tool_rounds,
                   adapter_call>>

\* llm_node returns: one assistant message, counter + 1
LlmNode(Cs, Opts) ==
    /\ pc = "llm"
    /\ llm_calls < max_iterations + CapSlack
    /\ \E c \in Cs, names \in Opts :
          /\ messages' = AddMessages(messages, <<AIMessage(c, names, next_id)>>)
          /\ next_id' = next_id + Len(names) + 1
    /\ iterations' = iterations + 1
    /\ llm_calls' = llm_calls + 1
    /\ pc' = "route"
    /\ UNCHANGED <<tool_exec, max_iterations, route, result, raised, tool_rounds,
                   adapter_call>>

\* llm_with_tools.invoke raises: the exception leaves research_agent.invoke
\* and is caught by run_research_query
LlmRaise ==
    /\ pc = "llm"
    /\ llm_calls < max_iterations + CapSlack
    /\ llm_calls' = llm_calls + 1
    /\ raised' = "llm_with_tools.invoke"
    /\ result' = ErrorResult(raised')
    /\ pc' = "done"
    /\ UNCHANGED <<tool_exec, max_iterations, messages, iterations, route, tool_rounds,
                   next_id, adapter_call>>

\* the conditional edge after llm
Route ==
    /\ pc = "route"
    /\ route' = should_continue(messages, iterations, max_iterations)
    /\ pc' = EdgeTarget(route')
    /\ UNCHANGED <<tool_exec, max_iterations, messages, iterations, result, raised,
                   llm_calls, tool_rounds, next_id, adapter_call>>

\* what the services do for one request during a run of the graph
LoopOutcomes == { [exc |-> "none", available |-> 3],
                  [exc |-> "Exception", available |-> 0] }

\* ToolNode runs the adapter a request names
RunTool(call, ext) ==
    IF call.name = "search_arxiv"
    THEN SearchArxiv(call.args.query, call.args.max_results, ext)
    ELSE SearchWeb(call.args.query, call.args.max_results, ext)

\* the requests of tool_node whose adapter is executing
Running ==
    {i \in 1..tool_exec.started :
        \A j \in 1..Len(tool_exec.done) : tool_exec.done[j].index # i}

\* tool_node hands the next request, in request order, to its executor; the
\* requests handed over before need not have finished
ToolBegin ==
    /\ pc = "tools"
    /\ tool_exec.started < Len(LastMessage(messages).tool_calls)
    /\ tool_exec' = [tool_exec EXCEPT !.started = @ + 1]
    /\ UNCHANGED <<pc, max_iterations, messages, iterations, route, result,
                   raised, llm_calls, tool_rounds, next_id, adapter_call>>

\* the adapter of one executing request returns its text
ToolFinish(Outs) ==
    /\ pc = "tools"
    /\ \E i \in Running, ext \in Outs :
          tool_exec' =
             [tool_exec EXCEPT
                !.done = Append(@,
                   [index |-> i,
                    text |-> RunTool(LastMessage(messages).tool_calls[i],
                                     ext).text]),
                !.runs = @ + 1]
    /\ UNCHANGED <<pc, max_iterations, messages, iterations, route, result,
                   raised, llm_calls, tool_rounds, next_id, adapter_call>>

\* ToolOutputs listing the results in order of completion
ToolOutputsAsCompleted(calls, done) ==
    [j \in 1..Len(done) |->
        [call |-> calls[done[j].index], text |-> done[j].text]]

\* the results of tool_node, one per request, in request order
ToolOutputs(calls, done) ==
    [i \in 1..Len(calls) |->
        [call |-> calls[i],
         text |-> done[CHOOSE j \in 1..Len(done) : done[j].index = i].text]]

\* tool_node returns once every request has finished: one tool message per
\* request of the last assistant message, then the edge tools -> llm
ToolNode ==
    /\ pc = "tools"
    /\ LET calls == LastMessage(messages).tool_calls
           k == Len(calls)
           outs == ToolOutputs(calls, tool_exec.done)
       IN  /\ Len(tool_exec.done) = k
           /\ messages' = AddMessages(messages,
                 [i \in 1..Len(outs) |->
                     ToolMessage(outs[i].text, outs[i].call, next_id + i - 1)])
           /\ next_id' = next_id + k
    /\ tool_exec' = [NoToolExec EXCEPT !.runs = tool_exec.runs]
    /\ tool_rounds' = tool_rounds + 1
    /\ pc' = "llm"
    /\ UNCHANGED <<max_iterations, iterations, route, result, raised,
                   llm_calls, adapter_call>>

\* research_agent.invoke returned: the result record is built
ReturnResult ==
    /\ pc = "end"
    /\ result' = FinalResult(messages, iterations)
    /\ pc' = "done"
    /\ UNCHANGED <<tool_exec, max_iterations, messages, iterations, route, raised,
                   llm_calls, tool_rounds, next_id, adapter_call>>

Next ==
    \/ Start
    \/ LlmNode(Contents, ToolCallOptions)
    \/ LlmRaise
    \/ Route
    \/ ToolBegin
    \/ ToolFinish(LoopOutcomes)
    \/ ToolNode
    \/ ReturnResult

Spec == Init /\ [][Next]_vars

FairSpec == Spec /\ WF_vars(Next)

----------------------------------------------------------------------------
(* The routing decision on its own: should_continue applied to every pair  *)
(* of a counter and a latest assistant message.                            *)

InitRouting ==
    /\ pc = "route"
    /\ max_iterations \in 0..MaxCeiling
    /\ iterations \in 0..(MaxCeiling + CounterSlack)
    /\ \E q \in Queries, c \in Contents, names \in ToolCallOptions :
          /\ messages = <<HumanMessage(q, 1), AIMessage(c, names, 2)>>
          /\ next_id = 3 + Len(names)
    /\ route = "none"
    /\ result = NoResult
    /\ raised = "none"
    /\ llm_calls = iterations
    /\ tool_rounds = 0
    /\ tool_exec = NoToolExec
    /\ adapter_call = NoAdapterCall

NextRouting == Route

SpecRouting == InitRouting /\ [][NextRouting]_vars

----------------------------------------------------------------------------
(* The run under the default ceiling of Settings. The model requests at    *)
(* most one tool per step and the service answers.                         *)

DefaultOptions == { <<>>, <<"search_arxiv">> }

DefaultOutcomes == { [exc |-> "none", available |-> 3] }

InitDefault ==
    /\ pc = "idle"
    /\ max_iterations = DefaultMaxIterations
    /\ messages = <<>>
    /\ iterations = 0
    /\ route = "none"
    /\ result = NoResult
    /\ raised = "none"
    /\ llm_calls = 0
    /\ tool_rounds = 0
    /\ next_id = 1
    /\ tool_exec = NoToolExec
    /\ adapter_call = NoAdapterCall

NextDefault ==
    \/ Start
    \/ LlmNode(Contents, DefaultOptions)
    \/ LlmRaise
    \/ Route
    \/ ToolBegin
    \/ ToolFinish(DefaultOutcomes)
    \/ ToolNode
    \/ ReturnResult

SpecDefault == InitDefault /\ [][NextDefault]_vars

----------------------------------------------------------------------------
(* The tool adapters invoked directly, each on every outcome of the calls  *)
(* it makes.                                                               *)

MaxResultsInputs == {0, 5, 1000}

SearchOutcomes ==
    [exc : {"none", "ConnectionError", "TypeError"}, available : {0, 3, 12}]

CourseOutcomes ==
    { e \in [exc : {"none", "ConnectionError"}, quality : {0, 2, 7},
             other : {0, 1, 6}] : e.quality + e.other <= CourseFetch }

SummarizeOutcomes == [fault : SummarizeFaults, pages : {3, 40}]

InvokeSearchArxiv ==
    /\ \E q \in Topics, m \in MaxResultsInputs, ext \in SearchOutcomes :
          adapter_call' = [name |-> "search_arxiv", input |-> <<q, m>>,
                           ext |-> ext, out |-> SearchArxiv(q, m, ext)]
    /\ UNCHANGED <<tool_exec, pc, max_iterations, messages, iterations, route, result,
                   raised, llm_calls, tool_rounds, next_id>>

InvokeSearchWeb ==
    /\ \E q \in Topics, m \in MaxResultsInputs, ext \in SearchOutcomes :
          adapter_call' = [name |-> "search_web", input |-> <<q, m>>,
                           ext |-> ext, out |-> SearchWeb(q, m, ext)]
    /\ UNCHANGED <<tool_exec, pc, max_iterations, messages, iterations, route, result,
                   raised, llm_calls, tool_rounds, next_id>>

InvokeFindLearningResources ==
    /\ \E t \in Topics, r \in ResourceTypes \cup {"podcasts"},
          ext \in CourseOutcomes :
          adapter_call' = [name |-> "find_learning_resources",
                           input |-> <<t, r>>, ext |-> ext,
                           out |-> FindLearningResources(t, r, ext)]
    /\ UNCHANGED <<tool_exec, pc, max_iterations, messages, iterations, route, result,
                   raised, llm_calls, tool_rounds, next_id>>

InvokeSummarizePaper ==
    /\ \E u \in {"https://arxiv.org/pdf/2103.00020.pdf", "http://unreachable"},
          f \in {"main findings", "methodology", "other"},
          ext \in SummarizeOutcomes :
          adapter_call' = [name |-> "summarize_paper", input |-> <<u, f>>,
                           ext |-> ext, out |-> SummarizePaper(u, f, ext)]
    /\ UNCHANGED <<tool_exec, pc, max_iterations, messages, iterations, route, result,
                   raised, llm_calls, tool_rounds, next_id>>

NextTools ==
    \/ InvokeSearchArxiv
    \/ InvokeSearchWeb
    \/ InvokeFindLearningResources
    \/ InvokeSummarizePaper

SpecTools == InitDefault /\ [][NextTools]_vars

----------------------------------------------------------------------------
(* Properties *)

\* the assistant messages of a history, in order
AssistantMessages(msgs) == SelectSeq(msgs, LAMBDA m : m.role = "ai")

IsPrefix(a, b) ==
    /\ Len(a) <= Len(b)
    /\ \A i \in 1..Len(a) : a[i] = b[i]

\* every assistant message that was followed by a tool run has its tool
\* results right behind it, one per request, in request order
ToolResultsFollow(msgs) ==
    \A i \in 1..(Len(msgs) - 1) :
        msgs[i].role = "ai" =>
            LET calls == msgs[i].tool_calls
            IN  /\ i + Len(calls) < Len(msgs)
                /\ \A j \in 1..Len(calls) :
                      /\ msgs[i + j].role = "tool"
                      /\ msgs[i + j].tool_call_id = calls[j].id

AllRequestTools(msgs) ==
    \A i \in 1..Len(msgs) :
        msgs[i].role = "ai" => Len(msgs[i].tool_calls) >= 1

\* C1: whenever the counter is above the ceiling, should_continue returns
\* "end" and the graph goes to END, tool requests or not.
C1_SafetyCutoff ==
    (pc # "route" /\ iterations > max_iterations)
        => (route = "end" /\ pc = "end")

C1_Witness ==
    /\ pc = "end"
    /\ route = "end"
    /\ iterations > max_iterations
    /\ Len(LastMessage(messages).tool_calls) >= 1

\* C2: with the counter at or below the ceiling, should_continue returns
\* "tools" exactly when the latest assistant message carries at least one
\* request and "end" when it carries none; the graph follows the decision.
C2_RoutingWithinCeiling ==
    (pc # "route" /\ iterations <= max_iterations)
        => LET n == Len(LastMessage(messages).tool_calls)
           IN  /\ route \in {"tools", "end"}
               /\ (route = "tools") <=> (n >= 1)
               /\ (n = 0) => (route = "end")
               /\ pc = route

C2_Witness ==
    /\ pc = "tools"
    /\ route = "tools"
    /\ iterations = max_iterations
    /\ Len(LastMessage(messages).tool_calls) >= 1

\* C3: every run of run_research_query eventually returns a result record.
C3_Termination == <>(pc = "done" /\ result.kind = "return")

C3_Witness ==
    /\ pc = "done"
    /\ result.kind = "return"
    /\ max_iterations = MaxCeiling
    /\ llm_calls = max_iterations + 1
    /\ tool_rounds = max_iterations
    /\ AllRequestTools(messages)

\* C4: under the default ceiling of 10, a run in which every assistant
\* message requests tools and nothing is raised returns after the 11th
\* reasoning step with success, iterations = 11 and the content of the
\* 11th assistant message, whose requests are not executed.
C4_CeilingExhaustion ==
    (pc = "done" /\ raised = "none" /\ AllRequestTools(messages))
        => /\ result.kind = "return"
           /\ result.success = TRUE
           /\ result.iterations = DefaultMaxIterations + 1
           /\ llm_calls = DefaultMaxIterations + 1
           /\ tool_rounds = DefaultMaxIterations
           /\ Len(AssistantMessages(messages)) = DefaultMaxIterations + 1
           /\ LastMessage(messages) =
                 AssistantMessages(messages)[DefaultMaxIterations + 1]
           /\ result.response =
                 AssistantMessages(messages)[DefaultMaxIterations + 1].content

C4_Witness ==
    /\ pc = "done"
    /\ raised = "none"
    /\ AllRequestTools(messages)
    /\ max_iterations = 10
    /\ result.success = TRUE
    /\ result.iterations = 11
    /\ result.response = "answer_b"

\* C5: a run that ends on a direct answer at turn k+1 <= ceiling, after k
\* turns that requested tools, has run the tools after each of the k turns
\* and returns success, iterations = k+1 and the content of the direct
\* answer.
C5_NormalCompletion ==
    (/\ pc = "done"
     /\ raised = "none"
     /\ Len(LastMessage(messages).tool_calls) = 0
     /\ iterations <= max_iterations)
        => LET ai == AssistantMessages(messages)
               k == Cardinality({i \in 1..Len(ai) : Len(ai[i].tool_calls) >= 1})
           IN  /\ Len(ai) = k + 1
               /\ \A i \in 1..k : Len(ai[i].tool_calls) >= 1
               /\ llm_calls = k + 1
               /\ tool_rounds = k
               /\ ToolResultsFollow(messages)
               /\ result.kind = "return"
               /\ result.success = TRUE
               /\ result.iterations = k + 1
               /\ result.response = ai[k + 1].content
               /\ ai[k + 1] = LastMessage(messages)

C5_Witness ==
    /\ pc = "done"
    /\ raised = "none"
    /\ tool_rounds = 1
    /\ iterations <= max_iterations
    /\ result.success = TRUE
    /\ result.iterations = 2
    /\ Len(LastMessage(messages).tool_calls) = 0

ErrorTexts ==
    { "Error searching arXiv", "Error searching web",
      "Error finding resources", "Error downloading PDF",
      "Error reading PDF", "Error summarizing paper" }

\* the call of adapter_call met an exception
AdapterFaulted ==
    IF adapter_call.name = "summarize_paper"
    THEN adapter_call.ext.fault.stage # "none"
    ELSE adapter_call.ext.exc # "none"

\* C7: every invocation of an adapter returns a text; an invocation that
\* met an exception returns one of the explanatory error texts.
C7_AdaptersReturnText ==
    (adapter_call.name # "none")
        => /\ adapter_call.out.kind = "text"
           /\ AdapterFaulted => adapter_call.out.text \in ErrorTexts
           /\ ~AdapterFaulted => adapter_call.out.text \notin ErrorTexts

C7_Witness ==
    /\ adapter_call.name = "summarize_paper"
    /\ adapter_call.ext.fault.stage = "llm.invoke"
    /\ adapter_call.out.kind = "text"
    /\ adapter_call.out.text = "Error summarizing paper"

\* C8 as stated: the number of llm_node invocations never exceeds
\* max_iterations.
C8_Original == llm_calls <= max_iterations

\* C8 as amended: the number of llm_node invocations never exceeds
\* max_iterations + 1, and the number of tool runs never exceeds
\* max_iterations.
C8_Amended ==
    /\ llm_calls <= max_iterations + 1
    /\ iterations <= max_iterations + 1
    /\ tool_rounds <= max_iterations

C8_Witness ==
    /\ pc = "done"
    /\ result.success = TRUE
    /\ max_iterations = MaxCeiling
    /\ llm_calls = max_iterations + 1
    /\ result.iterations = max_iterations + 1

\* C9: the counter is 0 when the run is seeded and equals, in every state,
\* the number of completed llm_node invocations and the number of assistant
\* messages of the history; routing and tool runs leave it alone.
C9_CounterInvariant ==
    /\ iterations = Len(AssistantMessages(messages))
    /\ llm_calls = iterations + (IF raised = "none" THEN 0 ELSE 1)
    /\ (pc = "idle" \/ (pc = "llm" /\ tool_rounds = 0)) => iterations = 0

C9_Witness ==
    /\ pc = "llm"
    /\ tool_rounds = 2
    /\ iterations = 2
    /\ Len(messages) > 3

\* C10: every step leaves the previous history as a prefix of the new one;
\* a reasoning step adds exactly one message, a tool run one per request,
\* and the history is seeded with exactly one user message.
C10_AppendOnly ==
    [][ /\ IsPrefix(messages, messages')
        /\ (pc = "idle" /\ pc' # "idle")
              => (Len(messages') = 1 /\ messages'[1].role = "human")
        /\ (pc = "llm" /\ pc' = "route")
              => Len(messages') = Len(messages) + 1
        /\ (pc = "tools" /\ pc' = "llm")
              => Len(messages') =
                    Len(messages) + Len(LastMessage(messages).tool_calls)
      ]_vars

C10_Witness ==
    /\ pc = "route"
    /\ tool_rounds = 1
    /\ Len(messages) = 5
    /\ messages[2].content = messages[5].content

\* the texts an adapter can return
ToolTexts(name) ==
    IF name = "search_arxiv"
    THEN {"Error searching arXiv", "No papers found", "Found research papers"}
    ELSE {"Error searching web", "No web results found", "Found web results"}

\* every assistant message that is not the last of the history is followed
\* by exactly one tool message per request, in request order, each keyed to
\* its request and holding a text of the adapter the request names
ResultsInRequestOrder(msgs) ==
    \A i \in 1..(Len(msgs) - 1) :
        msgs[i].role = "ai" =>
            LET calls == msgs[i].tool_calls
                k == Len(calls)
            IN  /\ k >= 1
                /\ i + k <= Len(msgs)
                /\ \A j \in 1..k :
                      /\ msgs[i + j].role = "tool"
                      /\ msgs[i + j].tool_call_id = calls[j].id
                      /\ msgs[i + j].content \in ToolTexts(calls[j].name)
                /\ (i + k < Len(msgs)) => msgs[i + k + 1].role = "ai"

ToolMessageCount(msgs) == Len(SelectSeq(msgs, LAMBDA m : m.role = "tool"))

====
